---- MODULE Spec2Model ----
(***************************************************************************)
(* Model of cmd/generate.go: the "generate" pipeline of acs-engine.        *)
(*                                                                         *)
(* Two entry paths exist in the source:                                    *)
(*   - the library path: NewGenerator(conf) followed by Generate() calls;  *)
(*   - the CLI path: the cobra command's RunE (validate, then run).        *)
(*                                                                         *)
(* Go pointers are modelled as options: Nil is the nil pointer, Some(x)    *)
(* a pointer to x.  A nil dereference is a Go panic (pc = "panic").        *)
(* log.Fatal* exits the process (pc = "fatal").                            *)
(* Go error values are modelled by their message, a sequence of words;     *)
(* NoErr is the nil error.                                                 *)
(***************************************************************************)
EXTENDS Naturals, Sequences, FiniteSets

VARIABLES
    pc,          \* position of the single thread of control
    entry,       \* "none" | "lib" | "cli": which entry path this process took
    docExists,   \* whether the file at the api model path exists on disk
    startExists, \* history: docExists when the entry path was started
    conf,        \* the *GenConf handed to NewGenerator (Nil before the call)
    args,        \* number of positional arguments of the CLI command
    doc,         \* history: the Model as json.Unmarshal produced it (Nil before)
    model,       \* NewGenerator's local `model` (Nil before Unmarshal)
    contents,    \* getContService's local `contents` (json.Marshal's output)
    scont,       \* getContService's local `scont` (the patched contents)
    gc,          \* the generateCmd struct
    err,         \* error value returned / logged last (NoErr when none)
    trace,       \* history: the stage events executed so far, oldest first
    nGenerate,   \* number of Generate() calls made on the generator
    template,    \* run()'s local `template`
    parameters,  \* run()'s local `parameters`
    certsGenerated, \* run()'s local `certsGenerated`
    engineOut,   \* history: what GenerateTemplate returned to this run (Nil before)
    written      \* arguments of the last WriteTLSArtifacts call (Nil before)

vars == <<pc, entry, docExists, startExists, conf, args, doc, model, contents,
          scont, gc, err, trace, nGenerate, template, parameters,
          certsGenerated, engineOut, written>>

-----------------------------------------------------------------------------
(* Bounds of the model *)

MaxGenerateCalls == 2
MaxArgs == 2

-----------------------------------------------------------------------------
(* Options and errors *)

Nil == <<>>
Some(x) == <<x>>
Deref(p) == p[1]

NoErr == <<>>

\* a stage event of the history: the operation, its outcome ("ok", "err",
\* "panic", or "call" for the entry into an exported operation) and its data
EvD(op, res, data) == [op |-> op, res |-> res, data |-> data]
Ev(op, res) == EvD(op, res, "")

-----------------------------------------------------------------------------
(* Input domains *)

ApiModelPath == "apimodel.json"

DocPrefixes == {"", "p"}
HostedPrefixes == {"q"}
Subnets == {"", "10.0.0.0/24"}
DocKeyLists == {<<"dockey">>, <<"dockey", "dockey2">>}

OverrideNames == {"", "mycluster"}
OverrideKeys == {"clikey"}
OutDirs == {"", "out"}

MasterProfiles == [DNSPrefix : DocPrefixes, Subnet : Subnets]
HostedMasterProfiles == [DNSPrefix : HostedPrefixes]
LinuxProfiles == [PublicKeys : DocKeyLists]
CertificateProfiles == {[CaCertificate |-> "docCA", CaPrivateKey |-> "docCAKey"]}

Opt(S) == {Nil} \cup {Some(x) : x \in S}

\* type Model: what json.Unmarshal can produce from a well-formed document
Models ==
    [APIVersion : {"vlabs"},
     MasterProfile : Opt(MasterProfiles),
     HostedMasterProfile : Opt(HostedMasterProfiles),
     LinuxProfile : Opt(LinuxProfiles),
     ServicePrincipalProfile : Opt({"docSP"}),
     CertificateProfile : Opt(CertificateProfiles)]

\* type GenConf
GenConfs ==
    [ApiConfPath : {ApiModelPath},
     OutDir : OutDirs,
     Name : OverrideNames,
     SSHKey : OverrideKeys,
     CliProfile : Opt({"cliSP"})]

\* outcome of ioutil.ReadFile on a CA file: Nil is an I/O error
CertFiles == {Nil, Some("CERT")}
KeyFiles == {Nil, Some(""), Some("KEY")}

\* what the external template engine may return
EngineTemplates == {"T1", "T2"}
EngineParameters == {"P1"}

\* the zero value generateCmd{}
ZeroGc ==
    [apimodelPath |-> "",
     outputDirectory |-> "",
     caCertificatePath |-> "",
     caPrivateKeyPath |-> "",
     classicMode |-> FALSE,
     noPrettyPrint |-> FALSE,
     parametersOnly |-> FALSE,
     containerService |-> Nil,
     apiVersion |-> "",
     locale |-> Nil]

-----------------------------------------------------------------------------
(* Error values of the source *)

ErrOpenNotExist(p) == <<"open", p, "no such file or directory">>
ErrOpenOther(p) == <<"open", p, "permission denied">>
ErrRead == <<"read error">>
ErrUnmarshal == <<"invalid character">>
ErrParsing == <<"error parsing the api model:", "deserialize">>
ErrNotExist(p) == <<"specified api model does not exist", p>>
ErrCAPair == <<"--ca-certificate-path", "and", "--ca-private-key-path",
               "must be specified together">>
ErrReadCert == <<"failed to read CA certificate file:", "io">>
ErrReadKey == <<"failed to read CA private key file:", "io">>
ErrTranslations == <<"error loading translation files:", "i18n">>
ErrTooManyArgs == <<"too many arguments were provided to 'generate'">>
ErrNoApiModel ==
    <<"--api-model was not supplied, nor was one specified as a positional argument">>
ErrInitGenerator == <<"failed to initialize template generator: %s", "init">>
ErrGenerate(p) == <<"error generating template", p, "engine">>
ErrPrettyTemplate == <<"error pretty printing template:", "pp">>
ErrPrettyParameters == <<"error pretty printing template parameters:", "pp">>
ErrWrite == <<"error writing artifacts:", "writer">>
ErrNilDeref == <<"runtime error: invalid memory address or nil pointer dereference">>

-----------------------------------------------------------------------------
(* NewGenerator: the override merge, lines 69-71 *)

\* model.Props.MasterProfile and model.Props.LinuxProfile are pointers of
\* api.Properties (line 145 tests MasterProfile against nil): assigning through
\* a nil one is a nil-pointer dereference.
MergePanics(m) == m.MasterProfile = Nil \/ m.LinuxProfile = Nil

\* mutant: the override key is appended to the document's keys
Merge_AppendsKey(m, c) ==
    [m EXCEPT
        !.ServicePrincipalProfile = c.CliProfile,
        !.MasterProfile = Some([Deref(m.MasterProfile) EXCEPT !.DNSPrefix = c.Name]),
        !.LinuxProfile = Some([Deref(m.LinuxProfile) EXCEPT
                                   !.PublicKeys = Append(@, c.SSHKey)])]

\* mutant: the override prefix only fills in a prefix the document left empty
Merge_KeepsDocPrefix(m, c) ==
    [m EXCEPT
        !.ServicePrincipalProfile = c.CliProfile,
        !.MasterProfile = Some([Deref(m.MasterProfile) EXCEPT
                                    !.DNSPrefix = IF @ = "" THEN c.Name ELSE @]),
        !.LinuxProfile = Some([Deref(m.LinuxProfile) EXCEPT
                                   !.PublicKeys = <<c.SSHKey>>])]

\* lines 69-71
Merge(m, c) ==
    [m EXCEPT
        !.ServicePrincipalProfile = c.CliProfile,
        !.MasterProfile = Some([Deref(m.MasterProfile) EXCEPT !.DNSPrefix = c.Name]),
        !.LinuxProfile = Some([Deref(m.LinuxProfile) EXCEPT
                                   !.PublicKeys = <<c.SSHKey>>])]

-----------------------------------------------------------------------------
(* getContService: json.Marshal, strings.Replace, DeserializeContainerService *)

\* Serialized JSON is a sequence of tokens: a member "k":v, an opening
\* "k":{ , a closing } and the separating comma.
Tok(k, v) == [k |-> k, v |-> v]
Comma == Tok(",", <<>>)
Open(k) == Tok(k, <<"{">>)
Close == Tok("}", <<>>)

RECURSIVE JoinMembers(_)
JoinMembers(ms) ==
    IF ms = <<>> THEN <<>>
    ELSE IF Len(ms) = 1 THEN Head(ms)
    ELSE Head(ms) \o <<Comma>> \o JoinMembers(Tail(ms))

Object(k, ms) == <<Open(k)>> \o JoinMembers(ms) \o <<Close>>

\* a pointer field tagged omitempty: left out when nil
OmitEmpty(p, ms) == IF p = Nil THEN <<>> ELSE <<ms>>

MarshalMaster(p) ==
    Object("masterProfile",
           << <<Tok("dnsPrefix", <<p.DNSPrefix>>)>>,
              <<Tok("subnet", <<p.Subnet>>)>>,
              <<Tok("oauthEnabled", <<"false">>)>> >>)

MarshalHosted(p) ==
    Object("hostedMasterProfile", << <<Tok("dnsPrefix", <<p.DNSPrefix>>)>> >>)

MarshalLinux(p) ==
    Object("linuxProfile", << <<Tok("publicKeys", p.PublicKeys)>> >>)

MarshalCert(p) ==
    Object("certificateProfile",
           << <<Tok("caCertificate", <<p.CaCertificate>>)>>,
              <<Tok("caPrivateKey", <<p.CaPrivateKey>>)>> >>)

Marshal(m) ==
    Object("",
        << <<Tok("apiVersion", <<m.APIVersion>>)>>,
           Object("properties",
               OmitEmpty(m.MasterProfile, MarshalMaster(Deref(m.MasterProfile)))
            \o OmitEmpty(m.LinuxProfile, MarshalLinux(Deref(m.LinuxProfile)))
            \o OmitEmpty(m.ServicePrincipalProfile,
                   <<Tok("servicePrincipalProfile", m.ServicePrincipalProfile)>>)
            \o OmitEmpty(m.CertificateProfile,
                   MarshalCert(Deref(m.CertificateProfile)))
            \o OmitEmpty(m.HostedMasterProfile,
                   MarshalHosted(Deref(m.HostedMasterProfile)))) >>)

\* strings.Replace(s, old, new, -1): leftmost, non-overlapping occurrences
RECURSIVE Replace(_, _, _)
Replace(s, old, new) ==
    IF Len(s) < Len(old) THEN s
    ELSE IF SubSeq(s, 1, Len(old)) = old
         THEN new \o Replace(SubSeq(s, Len(old) + 1, Len(s)), old, new)
         ELSE <<Head(s)>> \o Replace(Tail(s), old, new)

\* the literal "\"subnet\":\"\"," of line 124
EmptySubnetPattern == <<Tok("subnet", <<"">>), Comma>>

\* mutant: the pattern lacks the trailing comma, so the member alone is deleted
Cleanup_DropsMemberOnly(s) == Replace(s, <<Tok("subnet", <<"">>)>>, <<>>)

\* line 124: scont := strings.Replace(string(contents), "\"subnet\":\"\",", "", -1)
Cleanup(s) == Replace(s, EmptySubnetPattern, <<>>)

\* position of the first token with key k at or after position from (0: none)
FirstKey(s, k, from) ==
    IF \E i \in from..Len(s) : s[i].k = k
    THEN CHOOSE i \in from..Len(s) :
             s[i].k = k /\ \A j \in from..(i - 1) : s[j].k # k
    ELSE 0

HasObject(s, k) == FirstKey(s, k, 1) # 0
Field(s, obj, k) == s[FirstKey(s, k, FirstKey(s, obj, 1))].v

\* api.Apiloader.DeserializeContainerService (pkg/api): parses the patched
\* content into the container service; rejects a document that still carries
\* an empty subnet value, and may reject a document for other schema reasons
\* (accept = FALSE).
DeserializeContainerService(s, accept) ==
    IF ~accept \/ (\E i \in 1..Len(s) : s[i] = Tok("subnet", <<"">>))
    THEN [err |-> <<"schema error">>, service |-> Nil, version |-> ""]
    ELSE [err |-> NoErr,
          version |-> Field(s, "", "apiVersion")[1],
          service |-> Some([Properties |->
            [MasterProfile |->
                IF HasObject(s, "masterProfile")
                THEN Some([DNSPrefix |-> Field(s, "masterProfile", "dnsPrefix")[1]])
                ELSE Nil,
             HostedMasterProfile |->
                IF HasObject(s, "hostedMasterProfile")
                THEN Some([DNSPrefix |->
                              Field(s, "hostedMasterProfile", "dnsPrefix")[1]])
                ELSE Nil,
             LinuxProfile |->
                IF HasObject(s, "linuxProfile")
                THEN Some([PublicKeys |-> Field(s, "linuxProfile", "publicKeys")])
                ELSE Nil,
             ServicePrincipalProfile |->
                IF HasObject(s, "servicePrincipalProfile")
                THEN Field(s, "", "servicePrincipalProfile")
                ELSE Nil,
             CertificateProfile |->
                IF HasObject(s, "certificateProfile")
                THEN Some([CaCertificate |->
                               Field(s, "certificateProfile", "caCertificate")[1],
                           CaPrivateKey |->
                               Field(s, "certificateProfile", "caPrivateKey")[1]])
                ELSE Nil]])]

\* getContService(m) on generateCmd g: the new g and the returned error
getContService(g, m, accept) ==
    LET patched == Cleanup(Marshal(m))
        r == DeserializeContainerService(patched, accept)
    IN  [gc |-> [g EXCEPT !.containerService = r.service, !.apiVersion = r.version],
         err |-> IF r.err # NoErr THEN ErrParsing ELSE NoErr]

-----------------------------------------------------------------------------
(* validatef, lines 135-173 *)

OutputRoot == "_output"

\* path.Join(a, b) for a clean, non-empty a and a b of at most one element:
\* empty elements are ignored, the others joined by a slash
Join(a, b) == IF b = "" THEN a ELSE a \o "/" \o b

\* mutant: the derivation is not guarded by the test of line 144 and replaces
\* a directory that is already set
DeriveOutputDirectory_Always(g) ==
    IF g.containerService = Nil
    THEN [status |-> "panic", gc |-> g]
    ELSE LET prop == Deref(g.containerService).Properties IN
         IF prop.MasterProfile # Nil
         THEN [status |-> "ok",
               gc |-> [g EXCEPT !.outputDirectory =
                          Join(OutputRoot, Deref(prop.MasterProfile).DNSPrefix)]]
         ELSE IF prop.HostedMasterProfile = Nil
         THEN [status |-> "panic", gc |-> g]
         ELSE [status |-> "ok",
               gc |-> [g EXCEPT !.outputDirectory =
                          Join(OutputRoot, Deref(prop.HostedMasterProfile).DNSPrefix)]]

\* lines 144-150.  status "panic": a nil pointer was dereferenced
DeriveOutputDirectory(g) ==
    IF g.outputDirectory # ""
    THEN [status |-> "ok", gc |-> g]
    ELSE IF g.containerService = Nil
    THEN [status |-> "panic", gc |-> g]
    ELSE LET prop == Deref(g.containerService).Properties IN
         IF prop.MasterProfile # Nil
         THEN [status |-> "ok",
               gc |-> [g EXCEPT !.outputDirectory =
                          Join(OutputRoot, Deref(prop.MasterProfile).DNSPrefix)]]
         ELSE IF prop.HostedMasterProfile = Nil
         THEN [status |-> "panic", gc |-> g]
         ELSE [status |-> "ok",
               gc |-> [g EXCEPT !.outputDirectory =
                          Join(OutputRoot, Deref(prop.HostedMasterProfile).DNSPrefix)]]

\* line 154
CAPairMismatch(g) ==
    \/ (g.caCertificatePath # "" /\ g.caPrivateKeyPath = "")
    \/ (g.caCertificatePath = "" /\ g.caPrivateKeyPath # "")

\* lines 165-170
SetCertificateProfile(g, cert, key) ==
    LET cs == Deref(g.containerService)
        old == IF cs.Properties.CertificateProfile = Nil
               THEN [CaCertificate |-> "", CaPrivateKey |-> ""]
               ELSE Deref(cs.Properties.CertificateProfile)
    IN  [g EXCEPT !.containerService =
            Some([cs EXCEPT !.Properties.CertificateProfile =
                Some([old EXCEPT !.CaCertificate = cert, !.CaPrivateKey = key])])]

\* mutant: the certificate profile is created before the test of line 157, so
\* a model without one gets an empty profile although no CA path is set
WithoutCA_CreatesProfile(g) ==
    IF g.containerService = Nil THEN g
    ELSE IF Deref(g.containerService).Properties.CertificateProfile # Nil THEN g
    ELSE [g EXCEPT !.containerService =
             Some([Deref(g.containerService) EXCEPT
                      !.Properties.CertificateProfile =
                          Some([CaCertificate |-> "", CaPrivateKey |-> ""])])]

\* lines 157-171 skipped: len(gc.caCertificatePath) is 0 and gc is as it was
WithoutCA(g) == g

\* mutant: the certificate is stored as soon as it is read, before the key is
\* read
ConsumeCA_WritesCertFirst(g, certFile, keyFile) ==
    IF CAPairMismatch(g)
    THEN [status |-> "err", err |-> ErrCAPair, gc |-> g,
          ev |-> <<Ev("capair", "err")>>]
    ELSE IF g.caCertificatePath = ""
    THEN [status |-> "ok", err |-> NoErr, gc |-> WithoutCA(g), ev |-> <<>>]
    ELSE IF certFile = Nil
    THEN [status |-> "err", err |-> ErrReadCert, gc |-> g,
          ev |-> <<Ev("readcert", "err")>>]
    ELSE IF g.containerService = Nil
    THEN [status |-> "panic", err |-> ErrNilDeref, gc |-> g,
          ev |-> <<EvD("readcert", "ok", Deref(certFile)),
                   Ev("setcert", "panic")>>]
    ELSE IF keyFile = Nil
    THEN [status |-> "err", err |-> ErrReadKey,
          gc |-> SetCertificateProfile(g, Deref(certFile), ""),
          ev |-> <<EvD("readcert", "ok", Deref(certFile)), Ev("readkey", "err")>>]
    ELSE [status |-> "ok", err |-> NoErr,
          gc |-> SetCertificateProfile(g, Deref(certFile), Deref(keyFile)),
          ev |-> <<EvD("readcert", "ok", Deref(certFile)),
                   EvD("readkey", "ok", Deref(keyFile)),
                   Ev("setcert", "ok")>>]

\* lines 152-172, after the output directory is set
ConsumeCA(g, certFile, keyFile) ==
    IF CAPairMismatch(g)
    THEN [status |-> "err", err |-> ErrCAPair, gc |-> g,
          ev |-> <<Ev("capair", "err")>>]
    ELSE IF g.caCertificatePath = ""
    THEN [status |-> "ok", err |-> NoErr, gc |-> WithoutCA(g), ev |-> <<>>]
    ELSE IF certFile = Nil
    THEN [status |-> "err", err |-> ErrReadCert, gc |-> g,
          ev |-> <<Ev("readcert", "err")>>]
    ELSE IF keyFile = Nil
    THEN [status |-> "err", err |-> ErrReadKey, gc |-> g,
          ev |-> <<EvD("readcert", "ok", Deref(certFile)), Ev("readkey", "err")>>]
    ELSE IF g.containerService = Nil
    THEN [status |-> "panic", err |-> ErrNilDeref, gc |-> g,
          ev |-> <<EvD("readcert", "ok", Deref(certFile)),
                   EvD("readkey", "ok", Deref(keyFile)),
                   Ev("setcert", "panic")>>]
    ELSE [status |-> "ok", err |-> NoErr,
          gc |-> SetCertificateProfile(g, Deref(certFile), Deref(keyFile)),
          ev |-> <<EvD("readcert", "ok", Deref(certFile)),
                   EvD("readkey", "ok", Deref(keyFile)),
                   Ev("setcert", "ok")>>]

\* mutant: validatef without the existence check of lines 140-142
validatef_NoExistenceCheck(g, exists, certFile, keyFile) ==
    LET d == DeriveOutputDirectory(g) IN
    IF d.status = "panic"
    THEN [status |-> "panic", err |-> ErrNilDeref, gc |-> g,
          ev |-> <<Ev("derive", "panic")>>]
    ELSE LET c == ConsumeCA(d.gc, certFile, keyFile) IN
         [c EXCEPT !.ev = <<Ev("derive", "ok")>> \o @]

\* validatef on generateCmd g.  exists: what os.Stat finds; certFile, keyFile:
\* what ioutil.ReadFile would return for the two CA paths.
\* Result: status "ok" | "err" | "panic", the error, the new g, the events.
validatef(g, exists, certFile, keyFile) ==
    IF ~exists
    THEN [status |-> "err", err |-> ErrNotExist(g.apimodelPath), gc |-> g,
          ev |-> <<Ev("stat", "err")>>]
    ELSE LET d == DeriveOutputDirectory(g) IN
         IF d.status = "panic"
         THEN [status |-> "panic", err |-> ErrNilDeref, gc |-> g,
               ev |-> <<Ev("stat", "ok"), Ev("derive", "panic")>>]
         ELSE LET c == ConsumeCA(d.gc, certFile, keyFile) IN
              [c EXCEPT !.ev = <<Ev("stat", "ok"), Ev("derive", "ok")>> \o @]

\* the events of a whole validation, closed by its verdict
ValidationEvents(r) == r.ev \o <<Ev("validatef", r.status)>>

-----------------------------------------------------------------------------
(* validate, lines 175-198 (CLI path only) *)

\* translationsOk: whether i18n.LoadTranslations succeeds
validate(g, nargs, translationsOk, exists, certFile, keyFile) ==
    IF ~translationsOk
    THEN [status |-> "err", err |-> ErrTranslations,
          gc |-> [g EXCEPT !.locale = Nil],
          ev |-> <<Ev("translations", "err")>>]
    ELSE LET g1 == [g EXCEPT !.locale = Some("locale")] IN
         IF g1.apimodelPath = "" /\ nargs > 1
         THEN [status |-> "err", err |-> ErrTooManyArgs, gc |-> g1,
               ev |-> <<Ev("translations", "ok"), Ev("args", "err")>>]
         ELSE IF g1.apimodelPath = "" /\ nargs = 0
         THEN [status |-> "err", err |-> ErrNoApiModel, gc |-> g1,
               ev |-> <<Ev("translations", "ok"), Ev("args", "err")>>]
         ELSE LET g2 == IF g1.apimodelPath = ""
                        THEN [g1 EXCEPT !.apimodelPath = ApiModelPath]
                        ELSE g1
                  r == validatef(g2, exists, certFile, keyFile)
              IN  [r EXCEPT !.ev = <<Ev("translations", "ok"), Ev("args", "ok")>>
                                   \o ValidationEvents(r)]

-----------------------------------------------------------------------------
(* The state machine *)

Init ==
    /\ pc = "idle"
    /\ entry = "none"
    /\ docExists \in BOOLEAN
    /\ startExists = docExists
    /\ conf = Nil
    /\ args = 0
    /\ doc = Nil
    /\ model = Nil
    /\ contents = <<>>
    /\ scont = <<>>
    /\ gc = ZeroGc
    /\ err = NoErr
    /\ trace = <<>>
    /\ nGenerate = 0
    /\ template = Nil
    /\ parameters = Nil
    /\ certsGenerated = FALSE
    /\ engineOut = Nil
    /\ written = Nil

Log(evs) == trace' = trace \o evs

RunLocals == <<template, parameters, certsGenerated, engineOut, written>>

\* getContService's locals
Serialized == <<contents, scont>>

(* ---- library path: NewGenerator, lines 52-82 ---- *)

\* lines 53-57: os.Open(conf.ApiConfPath)
NewGenerator_Open(c, openOk) ==
    /\ pc = "idle"
    /\ entry' = "lib"
    /\ conf' = Some(c)
    /\ startExists' = docExists
    /\ IF ~docExists
       THEN /\ pc' = "nogen"
            /\ err' = ErrOpenNotExist(c.ApiConfPath)
            /\ Log(<<Ev("NewGenerator", "call"), Ev("open", "err")>>)
       ELSE IF ~openOk
       THEN /\ pc' = "nogen"
            /\ err' = ErrOpenOther(c.ApiConfPath)
            /\ Log(<<Ev("NewGenerator", "call"), Ev("open", "err")>>)
       ELSE /\ pc' = "readall"
            /\ err' = NoErr
            /\ Log(<<Ev("NewGenerator", "call"), Ev("open", "ok")>>)
    /\ UNCHANGED <<docExists, args, doc, model, gc, nGenerate, RunLocals,
                   Serialized>>

\* lines 59-62: ioutil.ReadAll(f)
NewGenerator_ReadAll(readOk) ==
    /\ pc = "readall"
    /\ IF readOk
       THEN pc' = "unmarshal" /\ err' = NoErr /\ Log(<<Ev("readall", "ok")>>)
       ELSE pc' = "nogen" /\ err' = ErrRead /\ Log(<<Ev("readall", "err")>>)
    /\ UNCHANGED <<entry, docExists, startExists, conf, args, doc, model, gc,
                   nGenerate, RunLocals, Serialized>>

\* lines 64-67: json.Unmarshal(data, &model); m = Nil: the data is not JSON
NewGenerator_Unmarshal(m) ==
    /\ pc = "unmarshal"
    /\ IF m = Nil
       THEN /\ pc' = "nogen" /\ err' = ErrUnmarshal
            /\ Log(<<Ev("unmarshal", "err")>>)
            /\ UNCHANGED <<doc, model>>
       ELSE /\ pc' = "merge" /\ err' = NoErr
            /\ Log(<<Ev("unmarshal", "ok")>>)
            /\ doc' = m
            /\ model' = m
    /\ UNCHANGED <<entry, docExists, startExists, conf, args, gc, nGenerate,
                   RunLocals, Serialized>>

\* lines 69-71: the override merge
NewGenerator_Merge ==
    /\ pc = "merge"
    /\ IF MergePanics(Deref(model))
       THEN /\ pc' = "panic" /\ err' = ErrNilDeref
            /\ Log(<<Ev("merge", "panic")>>)
            /\ UNCHANGED model
       ELSE /\ pc' = "getContService" /\ err' = NoErr
            /\ Log(<<Ev("merge", "ok")>>)
            /\ model' = Some(Merge(Deref(model), Deref(conf)))
    /\ UNCHANGED <<entry, docExists, startExists, conf, args, doc, gc,
                   nGenerate, RunLocals, Serialized>>

\* lines 73-81: build the generateCmd and load the container service
NewGenerator_getContService(accept) ==
    /\ pc = "getContService"
    /\ LET gen == [ZeroGc EXCEPT !.apimodelPath = Deref(conf).ApiConfPath,
                                 !.outputDirectory = Deref(conf).OutDir]
           r == getContService(gen, Deref(model), accept)
       IN  /\ contents' = Marshal(Deref(model))
           /\ scont' = Cleanup(Marshal(Deref(model)))
           /\ IF r.err # NoErr
              THEN /\ pc' = "nogen" /\ err' = r.err /\ gc' = ZeroGc
                   /\ Log(<<Ev("deserialize", "err")>>)
              ELSE /\ pc' = "ready" /\ err' = NoErr /\ gc' = r.gc
                   /\ Log(<<Ev("deserialize", "ok")>>)
    /\ UNCHANGED <<entry, docExists, startExists, conf, args, doc, model,
                   nGenerate, RunLocals>>

\* the file is deleted by the environment between two calls of the library
RemoveDocument ==
    /\ pc = "ready"
    /\ docExists
    /\ docExists' = FALSE
    /\ UNCHANGED <<pc, entry, startExists, conf, args, doc, model, gc, err,
                   trace, nGenerate, RunLocals, Serialized>>

\* mutant: Generate() goes on to run() although validatef returned an error
GenerateNext_IgnoresError(status) ==
    IF status = "panic" THEN "panic" ELSE "run"

\* lines 241-244: Generate() returns validatef's error to its caller, who
\* keeps the generator; otherwise it goes on to run()
GenerateNext(status) ==
    CASE status = "ok" -> "run"
      [] status = "err" -> "ready"
      [] OTHER -> "panic"

\* lines 240-243: Generate() calls validatef; an error is returned to the caller
Generate_validatef(certFile, keyFile) ==
    /\ pc = "ready"
    /\ nGenerate < MaxGenerateCalls
    /\ nGenerate' = nGenerate + 1
    /\ LET r == validatef(gc, docExists, certFile, keyFile) IN
       /\ gc' = r.gc
       /\ err' = r.err
       /\ Log(<<Ev("Generate", "call")>> \o ValidationEvents(r))
       /\ pc' = GenerateNext(r.status)
    /\ template' = Nil
    /\ parameters' = Nil
    /\ certsGenerated' = FALSE
    /\ engineOut' = Nil
    /\ UNCHANGED <<entry, docExists, startExists, conf, args, doc, model, written,
                   Serialized>>

(* ---- CLI path: newGenerateCmd, lines 84-109 ---- *)

\* lines 99-106: cobra parses the flags into gc and calls RunE
CLI_ParseFlags(flags, nargs) ==
    /\ pc = "idle"
    /\ entry' = "cli"
    /\ gc' = flags
    /\ args' = nargs
    /\ pc' = "validate"
    /\ startExists' = docExists
    /\ Log(<<Ev("RunE", "call")>>)
    /\ UNCHANGED <<docExists, conf, doc, model, err, nGenerate, RunLocals,
                   Serialized>>

\* lines 92-95: RunE ends the process on a validation error (log.Fatalf exits);
\* otherwise it goes on to run()
RunENext(status) ==
    CASE status = "ok" -> "run"
      [] status = "err" -> "fatal"
      [] OTHER -> "panic"

\* lines 91-94: gc.validate(cmd, args); an error is fatal (log.Fatalf)
CLI_validate(translationsOk, certFile, keyFile) ==
    /\ pc = "validate"
    /\ LET r == validate(gc, args, translationsOk, docExists, certFile, keyFile) IN
       /\ gc' = r.gc
       /\ err' = r.err
       /\ Log(r.ev)
       /\ pc' = RunENext(r.status)
    /\ UNCHANGED <<entry, docExists, startExists, conf, args, doc, model,
                   nGenerate, RunLocals, Serialized>>

(* ---- run, lines 200-238 ---- *)

ControlUnchanged == UNCHANGED <<entry, docExists, startExists, conf, args,
                                doc, model, gc, nGenerate, Serialized>>

\* lines 201-211: acsengine.InitializeTemplateGenerator
run_Initialize(ok) ==
    /\ pc = "run"
    /\ IF ok
       THEN pc' = "generate" /\ err' = NoErr /\ Log(<<Ev("init", "ok")>>)
       ELSE pc' = "fatal" /\ err' = ErrInitGenerator /\ Log(<<Ev("init", "err")>>)
    /\ UNCHANGED RunLocals
    /\ ControlUnchanged

\* mutant: the run waits for a formatter that is never started
AfterGenerateTemplate_Waits(noPrettyPrint) ==
    IF ~noPrettyPrint THEN "formatting" ELSE "write"

\* line 219: if !gc.noPrettyPrint { ... } selects the step after the engine
AfterGenerateTemplate(noPrettyPrint) ==
    IF ~noPrettyPrint THEN "prettyTemplate" ELSE "write"

\* lines 213-217: templateGenerator.GenerateTemplate(gc.containerService, ...)
run_GenerateTemplate(ok, t, p, certs) ==
    /\ pc = "generate"
    /\ IF ok
       THEN /\ err' = NoErr
            /\ template' = Some([body |-> t, pretty |-> FALSE])
            /\ parameters' = Some([body |-> p, pretty |-> FALSE])
            /\ certsGenerated' = certs
            /\ engineOut' = Some([template |-> t, parameters |-> p,
                                  certsGenerated |-> certs])
            /\ pc' = AfterGenerateTemplate(gc.noPrettyPrint)
            /\ Log(<<Ev("engine", "ok")>>)
       ELSE /\ pc' = "fatal" /\ err' = ErrGenerate(gc.apimodelPath)
            /\ Log(<<Ev("engine", "err")>>)
            /\ UNCHANGED <<template, parameters, certsGenerated, engineOut>>
    /\ UNCHANGED written
    /\ ControlUnchanged

\* acsengine.PrettyPrintArmTemplate / BuildAzureParametersFile: the canonical
\* form of a payload
PrettyPrint(x) == [x EXCEPT !.pretty = TRUE]

\* mutant: the failure is only logged and the run goes on to the artifact writer
AfterPrettyTemplateError_Continues == "write"

\* line 221: log.Fatalf ends the process
AfterPrettyTemplateError == "fatal"

\* lines 220-222
run_PrettyPrintTemplate(ok) ==
    /\ pc = "prettyTemplate"
    /\ IF ok
       THEN /\ pc' = "prettyParameters" /\ err' = NoErr
            /\ template' = Some(PrettyPrint(Deref(template)))
            /\ Log(<<Ev("prettyTemplate", "ok")>>)
       ELSE /\ pc' = AfterPrettyTemplateError /\ err' = ErrPrettyTemplate
            /\ Log(<<Ev("prettyTemplate", "err")>>)
            /\ UNCHANGED template
    /\ UNCHANGED <<parameters, certsGenerated, engineOut, written>>
    /\ ControlUnchanged

\* mutant: the parameters failure is only logged and the raw parameters go on
\* to the artifact writer
AfterPrettyParametersError_Continues == "write"

\* line 224: log.Fatalf ends the process
AfterPrettyParametersError == "fatal"

\* lines 223-225
run_PrettyPrintParameters(ok) ==
    /\ pc = "prettyParameters"
    /\ IF ok
       THEN /\ pc' = "write" /\ err' = NoErr
            /\ parameters' = Some(PrettyPrint(Deref(parameters)))
            /\ Log(<<Ev("prettyParameters", "ok")>>)
       ELSE /\ pc' = AfterPrettyParametersError /\ err' = ErrPrettyParameters
            /\ Log(<<Ev("prettyParameters", "err")>>)
            /\ UNCHANGED parameters
    /\ UNCHANGED <<template, certsGenerated, engineOut, written>>
    /\ ControlUnchanged

\* mutant: the two boolean arguments of WriteTLSArtifacts change places
WriterArgs_SwapsFlags(g, t, p, certs) ==
    [containerService |-> g.containerService,
     apiVersion |-> g.apiVersion,
     template |-> t,
     parameters |-> p,
     outputDirectory |-> g.outputDirectory,
     certsGenerated |-> g.parametersOnly,
     parametersOnly |-> certs]

\* line 233: the arguments of writer.WriteTLSArtifacts, in the call's order
WriterArgs(g, t, p, certs) ==
    [containerService |-> g.containerService,
     apiVersion |-> g.apiVersion,
     template |-> t,
     parameters |-> p,
     outputDirectory |-> g.outputDirectory,
     certsGenerated |-> certs,
     parametersOnly |-> g.parametersOnly]

\* lines 228-237: writer.WriteTLSArtifacts(...), then return nil
run_WriteTLSArtifacts(ok) ==
    /\ pc = "write"
    /\ written' = Some(WriterArgs(gc, Deref(template), Deref(parameters),
                                  certsGenerated))
    /\ IF ok
       THEN /\ pc' = IF entry = "lib" THEN "ready" ELSE "exit0"
            /\ err' = NoErr
            /\ Log(<<Ev("write", "ok")>>)
       ELSE /\ pc' = "fatal" /\ err' = ErrWrite
            /\ Log(<<Ev("write", "err")>>)
    /\ UNCHANGED <<template, parameters, certsGenerated, engineOut>>
    /\ ControlUnchanged

\* the flag values cobra can hand over
CliFlags ==
    [apimodelPath : {"", ApiModelPath},
     outputDirectory : OutDirs,
     caCertificatePath : {"", "ca.crt"},
     caPrivateKeyPath : {"", "ca.key"},
     classicMode : BOOLEAN,
     noPrettyPrint : BOOLEAN,
     parametersOnly : BOOLEAN,
     containerService : {Nil},
     apiVersion : {""},
     locale : {Nil}]

Next ==
    \/ \E c \in GenConfs, ok \in BOOLEAN : NewGenerator_Open(c, ok)
    \/ \E ok \in BOOLEAN : NewGenerator_ReadAll(ok)
    \/ \E m \in Opt(Models) : NewGenerator_Unmarshal(m)
    \/ NewGenerator_Merge
    \/ \E accept \in BOOLEAN : NewGenerator_getContService(accept)
    \/ RemoveDocument
    \/ \E cf \in CertFiles, kf \in KeyFiles : Generate_validatef(cf, kf)
    \/ \E f \in CliFlags, n \in 0..MaxArgs : CLI_ParseFlags(f, n)
    \/ \E tr \in BOOLEAN, cf \in CertFiles, kf \in KeyFiles : CLI_validate(tr, cf, kf)
    \/ \E ok \in BOOLEAN : run_Initialize(ok)
    \/ \E ok \in BOOLEAN, t \in EngineTemplates, p \in EngineParameters,
          certs \in BOOLEAN : run_GenerateTemplate(ok, t, p, certs)
    \/ \E ok \in BOOLEAN : run_PrettyPrintTemplate(ok)
    \/ \E ok \in BOOLEAN : run_PrettyPrintParameters(ok)
    \/ \E ok \in BOOLEAN : run_WriteTLSArtifacts(ok)

Spec == Init /\ [][Next]_vars

-----------------------------------------------------------------------------
(* Reading the history *)

Has(op, res) == \E i \in DOMAIN trace : trace[i].op = op /\ trace[i].res = res
LastEv == trace[Len(trace)]
Ended(op) == Len(trace) > 0 /\ LastEv.op = op

\* a run starts with a call of Generate() or of the command's RunE
IsCall(e) == e.res = "call" /\ e.op \in {"Generate", "RunE"}
IsFailure(e) == e.res \in {"err", "panic"}
\* the verdict that closes a validation is no stage of its own
IsStage(e) == e.res # "call" /\ e.op # "validatef"

\* positions i < j of the history lie in the same run
SameRun(i, j) == \A k \in (i + 1)..j : ~IsCall(trace[k])

\* the position where the run of position i started (0: before any run)
RunStart(i) ==
    IF \E k \in 1..i : IsCall(trace[k])
    THEN CHOOSE k \in 1..i : IsCall(trace[k]) /\ SameRun(k, i)
    ELSE 0

CertProfileOf(g) == Deref(g.containerService).Properties.CertificateProfile

-----------------------------------------------------------------------------
(* C1 *)

\* C1: the template engine is invoked only in a run whose validation ran and
\* returned no error, on the CLI path and on the Generate() path alike.
C1_EngineOnlyAfterValidation ==
    \A i \in DOMAIN trace :
        trace[i].op = "engine" =>
            LET k == RunStart(i) IN
            /\ k > 0
            /\ \E j \in (k + 1)..(i - 1) :
                   trace[j].op = "validatef" /\ trace[j].res = "ok"
            /\ \A j \in (k + 1)..(i - 1) :
                   trace[j].op = "validatef" => trace[j].res = "ok"

\* the engine is invoked by the second Generate() call on one generator
C1_Witness ==
    /\ entry = "lib" /\ nGenerate = 2
    /\ Ended("engine")

-----------------------------------------------------------------------------
(* C2 *)

NamesBothFlags(e) ==
    /\ \E i \in DOMAIN e : e[i] = "--ca-certificate-path"
    /\ \E i \in DOMAIN e : e[i] = "--ca-private-key-path"

\* C2: a validation of an existing document with exactly one CA path set ends
\* in an error naming both flags, for every output-directory setting, with no
\* CA file read and the certificate profile untouched.
C2_UnpairedCAIsValidationError ==
    (Ended("validatef") /\ docExists /\ CAPairMismatch(gc)) =>
        /\ LastEv.res = "err"
        /\ NamesBothFlags(err)
        /\ ~Has("readcert", "ok") /\ ~Has("readkey", "ok")
        /\ ~Has("setcert", "ok")

-----------------------------------------------------------------------------
(* C3 *)

\* C3: a validation with both CA paths set and both files read succeeds and
\* leaves the certificate profile present, holding the two files' contents.
C3_PairedCAFillsCertificateProfile ==
    (/\ Ended("validatef")
     /\ gc.caCertificatePath # "" /\ gc.caPrivateKeyPath # ""
     /\ Has("readcert", "ok") /\ Has("readkey", "ok")) =>
        /\ LastEv.res = "ok"
        /\ gc.containerService # Nil
        /\ CertProfileOf(gc) # Nil
        /\ \E i \in DOMAIN trace :
               /\ trace[i].op = "readcert"
               /\ Deref(CertProfileOf(gc)).CaCertificate = trace[i].data
        /\ \E i \in DOMAIN trace :
               /\ trace[i].op = "readkey"
               /\ Deref(CertProfileOf(gc)).CaPrivateKey = trace[i].data

-----------------------------------------------------------------------------
(* C4 *)

\* C4: on the NewGenerator/Generate path with no explicit output directory, a
\* model with a managed master profile of prefix p resolves to <root>/p, and a
\* model with only a hosted master profile of prefix q gets through to
\* validation and resolves to <root>/q.
C4_DerivedOutputDirectory ==
    (entry = "lib" /\ doc # Nil /\ Deref(conf).OutDir = "") =>
        LET d == Deref(doc) IN
        /\ (d.MasterProfile # Nil /\ Has("validatef", "ok")) =>
               gc.outputDirectory =
                   Join(OutputRoot, Deref(Deref(model).MasterProfile).DNSPrefix)
        /\ (d.MasterProfile = Nil /\ d.HostedMasterProfile # Nil
                /\ d.LinuxProfile # Nil) =>
               /\ pc # "panic"
               /\ Has("validatef", "ok") =>
                      gc.outputDirectory =
                          Join(OutputRoot, Deref(d.HostedMasterProfile).DNSPrefix)

-----------------------------------------------------------------------------
(* C5 *)

\* C5: the derivation of the output directory never ends in a panic; without
\* a usable prefix the validation returns an error value.
C5_DerivationNeverPanics ==
    \A i \in DOMAIN trace : trace[i].op = "derive" => trace[i].res # "panic"

-----------------------------------------------------------------------------
(* C6 *)

\* a document path was supplied to the run
PathGiven == entry = "lib" \/ (entry = "cli" /\ (gc.apimodelPath # "" \/ args = 1))

IsNotFound(e) ==
    e \in {ErrOpenNotExist(ApiModelPath), ErrNotExist(ApiModelPath)}

NothingDeserialized ==
    \A i \in DOMAIN trace :
        trace[i].op \notin {"unmarshal", "deserialize", "engine", "write"}

\* C6 as claimed: a run whose document path does not exist fails with a
\* not-found error, with nothing unmarshalled or deserialized and neither the
\* engine nor the artifact writer invoked.
C6_MissingDocumentIsNotFound ==
    (PathGiven /\ ~startExists) =>
        /\ NothingDeserialized
        /\ pc \in {"validate", "nogen", "fatal"}
        /\ pc \in {"nogen", "fatal"} => IsNotFound(err)

\* C6 as amended: the same, but on the CLI path a failure to load the
\* translations comes first and is then the error of the run.
C6_MissingDocumentFailsEarly ==
    (PathGiven /\ ~startExists) =>
        /\ NothingDeserialized
        /\ pc \in {"validate", "nogen", "fatal"}
        /\ pc \in {"nogen", "fatal"} =>
               \/ IsNotFound(err)
               \/ /\ entry = "cli" /\ err = ErrTranslations
                  /\ ~Has("stat", "ok") /\ ~Has("stat", "err")

\* the command ended on the not-found error of the existence check
C6_Witness ==
    /\ entry = "cli" /\ PathGiven /\ ~startExists
    /\ pc = "fatal" /\ err = ErrNotExist(ApiModelPath)
    /\ Has("stat", "err")

-----------------------------------------------------------------------------
(* C7 *)

\* C7: once merged, the model carries the override identity, DNS prefix and
\* exactly the one override key whatever the document held, and merging the
\* same override again changes nothing.
C7_OverridesWinAndIdempotent ==
    Has("merge", "ok") =>
        LET m == Deref(model)
            c == Deref(conf)
        IN  /\ m.ServicePrincipalProfile = c.CliProfile
            /\ Deref(m.MasterProfile).DNSPrefix = c.Name
            /\ Deref(m.LinuxProfile).PublicKeys = <<c.SSHKey>>
            /\ Merge(m, c) = m
            /\ Merge(Merge(Deref(doc), c), c) = Merge(Deref(doc), c)

\* merged over a document that supplied an identity, a prefix and two keys of
\* its own, none of them equal to the override
C7_Witness ==
    /\ Has("merge", "ok")
    /\ Deref(doc).ServicePrincipalProfile = Some("docSP")
    /\ Deref(conf).CliProfile = Nil
    /\ Deref(Deref(doc).MasterProfile).DNSPrefix = "p"
    /\ Deref(conf).Name = "mycluster"
    /\ Len(Deref(Deref(doc).LinuxProfile).PublicKeys) = 2

-----------------------------------------------------------------------------
(* C8 *)

\* C8: for every document that was read and parsed, the merge completes and
\* the run goes on to the deserialization of the merged model.
C8_MergeNeverFails ==
    Has("unmarshal", "ok") => (~Has("merge", "panic") /\ pc # "panic")

-----------------------------------------------------------------------------
(* C9 *)

\* C9: the engine is invoked only after load, merge and validation, in this
\* order; the artifact writer only after a successful generation and, when
\* pretty-printing is requested, after both payloads were reformatted.
C9_StageOrder ==
    /\ \A i \in DOMAIN trace :
           trace[i].op = "engine" =>
               \E d \in 1..(i - 1) :
                   /\ trace[d].op = "validatef" /\ trace[d].res = "ok"
                   /\ SameRun(d, i)
                   /\ \E c \in 1..(d - 1) :
                          /\ trace[c].op = "deserialize" /\ trace[c].res = "ok"
                          /\ \E b \in 1..(c - 1) :
                                 /\ trace[b].op = "merge" /\ trace[b].res = "ok"
                                 /\ \E a \in 1..(b - 1) :
                                        /\ trace[a].op = "unmarshal"
                                        /\ trace[a].res = "ok"
    /\ \A i \in DOMAIN trace :
           trace[i].op = "write" =>
               /\ \E e \in 1..(i - 1) :
                      /\ trace[e].op = "engine" /\ trace[e].res = "ok"
                      /\ SameRun(e, i)
               /\ ~gc.noPrettyPrint =>
                      \E q \in 1..(i - 1) :
                          /\ trace[q].op = "prettyParameters" /\ trace[q].res = "ok"
                          /\ SameRun(q, i)
                          /\ \E t \in 1..(q - 1) :
                                 /\ trace[t].op = "prettyTemplate"
                                 /\ trace[t].res = "ok"
                                 /\ SameRun(t, q)

-----------------------------------------------------------------------------
(* C10 *)

\* C10: after a failed stage no later stage of the same run executes (a
\* failure outside Generate()'s validation ends the process, so that no stage
\* at all follows it), and the engine and the artifact writer are each invoked
\* at most once per run.
C10_FailureIsTerminal ==
    /\ \A i, j \in DOMAIN trace :
           (i < j /\ IsFailure(trace[i]) /\ IsStage(trace[i]) /\ IsStage(trace[j]))
               => /\ ~SameRun(i, j)
                  /\ entry = "lib"
                  /\ trace[i].op \in {"stat", "derive", "capair", "readcert",
                                      "readkey", "setcert"}
                  /\ trace[i].res = "err"
    /\ \A i, j \in DOMAIN trace :
           (i < j /\ trace[i].op = trace[j].op
                  /\ trace[i].op \in {"engine", "write"}) => ~SameRun(i, j)
    /\ (Len(trace) > 0 /\ IsFailure(LastEv)) => pc \in {"nogen", "fatal", "panic", "ready"}

\* a pretty-printing failure ended the process after the engine had run
C10_Witness ==
    /\ pc = "fatal"
    /\ Has("engine", "ok")
    /\ Ended("prettyTemplate") /\ LastEv.res = "err"

(***************************************************************************)
(* C11: a failed reformatting never reaches the artifact writer            *)
(***************************************************************************)

\* the run that is last in the trace has invoked the artifact writer
WriterInvokedInLastRun ==
    \E j \in DOMAIN trace : trace[j].op = "write" /\ SameRun(j, Len(trace))

\* C11: when pretty-printing is requested and the reformatting of the template
\* or of the parameters fails, the run ends in failure (log.Fatalf ends the
\* process with the formatter's error), the artifact writer is not invoked by
\* that run, and whatever the writer was ever handed by a pretty-printing
\* process is formatted: the raw payload never takes the formatted one's place.
C11_FormatFailureNeverPersists ==
    /\ \A i \in DOMAIN trace :
           (trace[i].op \in {"prettyTemplate", "prettyParameters"}
              /\ trace[i].res = "err")
           => /\ ~gc.noPrettyPrint
              /\ i = Len(trace)
              /\ pc = "fatal"
              /\ err = (IF trace[i].op = "prettyTemplate"
                        THEN ErrPrettyTemplate ELSE ErrPrettyParameters)
              /\ ~WriterInvokedInLastRun
    /\ (written # Nil /\ ~gc.noPrettyPrint)
       => (Deref(written).template.pretty /\ Deref(written).parameters.pretty)

\* the template was reformatted, the parameters could not be: the run is over
\* and the writer was not called
C11_Witness ==
    /\ Ended("prettyParameters") /\ LastEv.res = "err"
    /\ Deref(template).pretty /\ ~Deref(parameters).pretty
    /\ pc = "fatal" /\ written = Nil

(***************************************************************************)
(* C12: the cleanup transform of line 124, applied to serialized objects   *)
(***************************************************************************)

\* most members of a serialized object
MaxMembers == 4

\* the members json.Marshal can emit around a subnet field: an empty subnet,
\* a set subnet, another field
MemberKinds ==
    { <<Tok("subnet", <<"">>)>>,
      <<Tok("subnet", <<"10.0.0.0/24">>)>>,
      <<Tok("dnsPrefix", <<"p">>)>> }

\* json.Marshal's output for an object of up to MaxMembers members: the
\* members in order, separated by commas, no comma after the last
SerializedObjects ==
    { Object("masterProfile", ms) :
        ms \in UNION { [1..n -> MemberKinds] : n \in 0..MaxMembers } }

\* the state before line 124 runs: contents holds a serialized object
CleanupInit ==
    /\ pc = "marshalled"
    /\ contents \in SerializedObjects
    /\ scont = <<>>
    /\ entry = "lib"
    /\ docExists = TRUE
    /\ startExists = TRUE
    /\ conf = Nil
    /\ args = 0
    /\ doc = Nil
    /\ model = Nil
    /\ gc = ZeroGc
    /\ err = NoErr
    /\ trace = <<>>
    /\ nGenerate = 0
    /\ template = Nil
    /\ parameters = Nil
    /\ certsGenerated = FALSE
    /\ engineOut = Nil
    /\ written = Nil

CleanupFrame ==
    UNCHANGED <<entry, docExists, startExists, conf, args, doc, model, contents,
                gc, err, trace, nGenerate, RunLocals>>

\* line 124
Cleanup_Apply ==
    /\ pc = "marshalled"
    /\ scont' = Cleanup(contents)
    /\ pc' = "patched"
    /\ CleanupFrame

\* line 124 applied to its own result
Cleanup_ApplyAgain ==
    /\ pc = "patched"
    /\ scont' = Cleanup(scont)
    /\ pc' = "patchedTwice"
    /\ CleanupFrame

CleanupNext == Cleanup_Apply \/ Cleanup_ApplyAgain

CleanupSpec == CleanupInit /\ [][CleanupNext]_vars

\* the pattern occurs in s at position i
OccursAt(s, i) ==
    /\ i >= 1
    /\ i + Len(EmptySubnetPattern) - 1 <= Len(s)
    /\ SubSeq(s, i, i + Len(EmptySubnetPattern) - 1) = EmptySubnetPattern

HasPattern(s) == \E i \in 1..Len(s) : OccursAt(s, i)

\* the positions of s that lie in no occurrence of the pattern
Outside(s) ==
    { i \in 1..Len(s) :
        \A j \in (i - Len(EmptySubnetPattern) + 1)..i : ~OccursAt(s, j) }

\* the tokens of s at the positions of K, from position i on, in order
RECURSIVE Restrict(_, _, _)
Restrict(s, K, i) ==
    IF i > Len(s) THEN <<>>
    ELSE (IF i \in K THEN <<s[i]>> ELSE <<>>) \o Restrict(s, K, i + 1)

\* C12: the cleanup deletes exactly the occurrences of the empty-subnet
\* pattern (the member with its trailing comma) and keeps every other token
\* in place and in order; a serialized object without the pattern comes back
\* unchanged; and applying the cleanup to its own result gives that result.
C12_CleanupExactAndIdempotent ==
    pc \in {"patched", "patchedTwice"}
    => /\ scont = Restrict(contents, Outside(contents), 1)
       /\ ~HasPattern(contents) => scont = contents
       /\ ~HasPattern(scont)

\* two empty subnets were deleted, a set subnet and an empty subnet in last
\* place (no trailing comma) were kept, and the second application changed
\* nothing
C12_Witness ==
    /\ pc = "patchedTwice"
    /\ Len(contents) = Len(scont) + 4
    /\ \E i \in 1..Len(scont) : scont[i] = Tok("subnet", <<"10.0.0.0/24">>)
    /\ scont[Len(scont) - 1] = Tok("subnet", <<"">>)

(***************************************************************************)
(* C13: the override DNS prefix decides the derived output directory       *)
(***************************************************************************)

\* C13: on the NewGenerator path, once the overrides are merged the managed
\* master profile carries the override DNS prefix, and a validation that
\* succeeds with no explicit output directory resolves the directory to
\* <root>/<override prefix>, whatever prefix the document itself held; for a
\* document prefix "" and the override "mycluster" that is _output/mycluster.
C13_OverridePrefixDecidesDirectory ==
    (entry = "lib" /\ Has("merge", "ok")) =>
        LET c == Deref(conf) IN
        /\ Deref(Deref(model).MasterProfile).DNSPrefix = c.Name
        /\ (Has("validatef", "ok") /\ c.OutDir = "") =>
               /\ gc.outputDirectory = Join(OutputRoot, c.Name)
               /\ c.Name = "mycluster" => gc.outputDirectory = "_output/mycluster"

\* the document's prefix was empty, the override is "mycluster", no output
\* directory was given and the validation has resolved one
C13_Witness ==
    /\ entry = "lib" /\ Has("validatef", "ok")
    /\ Deref(Deref(doc).MasterProfile).DNSPrefix = ""
    /\ Deref(conf).Name = "mycluster" /\ Deref(conf).OutDir = ""
    /\ Deref(Deref(model).MasterProfile).DNSPrefix = "mycluster"
    /\ gc.outputDirectory = "_output/mycluster"

(***************************************************************************)
(* C15: the translator is resolved before anything else in a run           *)
(***************************************************************************)

\* C15: on every entry path, whenever a run initializes or invokes the
\* template engine or calls the artifact writer, that run has resolved the
\* translations before (the locale the engine and the writer are given is
\* loaded), nothing of the run came before the resolution, and a failed
\* resolution is the end of the run.
C15_TranslatorResolvedFirst ==
    /\ \A i \in DOMAIN trace :
           trace[i].op \in {"init", "engine", "write"}
           => /\ gc.locale # Nil
              /\ \E j \in 1..(i - 1) :
                    /\ trace[j].op = "translations" /\ trace[j].res = "ok"
                    /\ SameRun(j, i)
                    /\ IsCall(trace[j - 1])
    /\ Has("translations", "err")
       => (Ended("translations") /\ pc = "fatal" /\ err = ErrTranslations)

(***************************************************************************)
(* C16: without CA paths the validation keeps the certificate profile      *)
(***************************************************************************)

\* a step of validatef: Generate() on the library path, validate in RunE
ValidationStep == pc \in {"ready", "validate"} /\ pc' # pc

\* C16: a validation run while neither CA path is set leaves the model, and
\* with it the certificate profile, exactly as it was: an absent profile stays
\* absent, a profile the document supplied keeps its certificate and its key.
C16_NoCAKeepsCertificateProfile ==
    [][(ValidationStep /\ gc.caCertificatePath = "" /\ gc.caPrivateKeyPath = "")
          => gc'.containerService = gc.containerService]_vars

\* validated twice without CA paths; the profile the document supplied is
\* still the document's
C16_Witness ==
    /\ nGenerate = 2 /\ Has("validatef", "ok")
    /\ gc.caCertificatePath = "" /\ gc.caPrivateKeyPath = ""
    /\ Deref(doc).CertificateProfile # Nil
    /\ CertProfileOf(gc) = Deref(doc).CertificateProfile

(***************************************************************************)
(* C17: what the artifact writer is handed                                 *)
(***************************************************************************)

\* a payload as GenerateTemplate returns it
Raw(b) == [body |-> b, pretty |-> FALSE]

\* C17: when the artifact writer has just been called, the template and the
\* parameters it received are the engine's own when pretty-printing was not
\* requested and the reformatted template and the reformatted parameters when
\* it was; the model, the API version, the output directory and the
\* parameters-only flag are those of the generator and the certs-generated
\* flag is the one the engine returned.
C17_WriterGetsFinalPayloads ==
    Ended("write") =>
        LET w == Deref(written)
            e == Deref(engineOut)
        IN  /\ w.template = (IF gc.noPrettyPrint THEN Raw(e.template)
                             ELSE PrettyPrint(Raw(e.template)))
            /\ w.parameters = (IF gc.noPrettyPrint THEN Raw(e.parameters)
                               ELSE PrettyPrint(Raw(e.parameters)))
            /\ w.containerService = gc.containerService
            /\ w.apiVersion = gc.apiVersion
            /\ w.outputDirectory = gc.outputDirectory
            /\ w.certsGenerated = e.certsGenerated
            /\ w.parametersOnly = gc.parametersOnly

\* a run without pretty-printing handed the engine's raw payloads over, with
\* the parameters-only flag set and no certificates generated
C17_Witness ==
    /\ Ended("write") /\ LastEv.res = "ok"
    /\ gc.noPrettyPrint /\ gc.parametersOnly
    /\ ~Deref(written).template.pretty /\ ~Deref(written).parameters.pretty
    /\ Deref(written).template.body = "T2"
    /\ Deref(written).parametersOnly /\ ~Deref(written).certsGenerated

(***************************************************************************)
(* C18: a run that began generation terminates                             *)
(***************************************************************************)

\* the steps of run(), lines 200-238: each is a call of an external
\* collaborator (engine, pretty-printer, artifact writer) and its return
RunStep ==
    \/ \E ok \in BOOLEAN : run_Initialize(ok)
    \/ \E ok \in BOOLEAN, t \in EngineTemplates, p \in EngineParameters,
          certs \in BOOLEAN : run_GenerateTemplate(ok, t, p, certs)
    \/ \E ok \in BOOLEAN : run_PrettyPrintTemplate(ok)
    \/ \E ok \in BOOLEAN : run_PrettyPrintParameters(ok)
    \/ \E ok \in BOOLEAN : run_WriteTLSArtifacts(ok)

\* every external call of run() returns: a step of run() that can be taken is
\* eventually taken
FairSpec == Spec /\ WF_vars(RunStep)

\* run() has been entered and has not returned or exited
InRun == pc \notin {"idle", "readall", "unmarshal", "merge", "getContService",
                    "ready", "nogen", "validate", "exit0", "fatal", "panic"}

\* Done after a successful persist (Generate() returned nil, or the command
\* exited with status 0), or the fatal error state
RunOver == pc \in {"ready", "exit0", "fatal"}

\* C18: provided every external call returns, a run that has entered
\* generation eventually is over, Done after the artifact writer succeeded or
\* ended by a fatal error; it cannot stay in the middle of run() forever.
C18_RunTerminates == InRun ~> RunOver

\* the second Generate() of a generator went through every stage and is Done
C18_Witness ==
    /\ nGenerate = 2 /\ pc = "ready"
    /\ Ended("write") /\ LastEv.res = "ok"

(***************************************************************************)
(* C19: the CA certificate and the CA key are stored together or not at all *)
(***************************************************************************)

\* the events the step under way appends to the history
NewEvents == (Len(trace) + 1)..Len(trace')

\* the step read the file behind op: successfully (res "ok") or not ("err")
ReadIn(op, res) ==
    \E i \in NewEvents : trace'[i].op = op /\ trace'[i].res = res

\* after the step the certificate profile holds what the step read from the
\* certificate file and from the key file
StoredBothFiles ==
    /\ gc'.containerService # Nil
    /\ CertProfileOf(gc') # Nil
    /\ \E i \in NewEvents : \E j \in NewEvents :
          /\ i < j
          /\ trace'[i].op = "readcert" /\ trace'[i].res = "ok"
          /\ trace'[j].op = "readkey" /\ trace'[j].res = "ok"
          /\ Deref(CertProfileOf(gc')).CaCertificate = trace'[i].data
          /\ Deref(CertProfileOf(gc')).CaPrivateKey = trace'[j].data

\* C19: a validation changes the model only by storing the contents of both
\* files in the certificate profile; once the certificate file is read the
\* next thing the validation does is read the key file, nothing is stored in
\* between; and when the key file cannot be read the validation fails with
\* the key-read error, the run does not start, and the model is as it was
\* (no profile created, no certificate stored).
C19_CAStoredTogetherOrNotAtAll ==
    [][ValidationStep =>
          /\ gc'.containerService # gc.containerService => StoredBothFiles
          /\ ReadIn("readcert", "ok")
                => (ReadIn("readkey", "ok") \/ ReadIn("readkey", "err"))
          /\ ReadIn("readkey", "err")
                => /\ ReadIn("readcert", "ok")
                   /\ gc'.containerService = gc.containerService
                   /\ err' = ErrReadKey
                   /\ trace'[Len(trace')] = Ev("validatef", "err")
                   /\ pc' \notin {"run", "panic"}]_vars

\* the certificate file was read, the key file could not be: the validation
\* has failed with the key-read error and no certificate profile exists
C19_Witness ==
    /\ Ended("validatef") /\ LastEv.res = "err"
    /\ Has("readcert", "ok") /\ Has("readkey", "err")
    /\ err = ErrReadKey
    /\ gc.containerService = Nil

(***************************************************************************)
(* C20: the output directory, once set, stays                              *)
(***************************************************************************)

\* C20: no step changes an output directory that is set.  A directory given
\* explicitly (GenConf.OutDir, --output-directory) is therefore never changed
\* by a validation, and a derived one is derived once: every later Generate()
\* on the same generator finds it set and keeps it.
C20_OutputDirectoryStable ==
    [][gc.outputDirectory # "" => gc'.outputDirectory = gc.outputDirectory]_vars

\* the second Generate() of a generator built without an output directory
\* has validated and run; the directory is the one the first call derived
C20_Witness ==
    /\ nGenerate = 2 /\ Ended("write")
    /\ Deref(conf).OutDir = "" /\ Deref(conf).Name = "mycluster"
    /\ \E i \in DOMAIN trace : \E j \in DOMAIN trace :
          /\ i < j
          /\ trace[i] = Ev("validatef", "ok") /\ trace[j] = Ev("validatef", "ok")
    /\ gc.outputDirectory = "_output/mycluster"
====
